---- MODULE Spec2Model ----
(***************************************************************************)
(* Model of src/hat/snapshot_index.rs: the SnapshotIndex actor, a          *)
(* single-consumer message handler that owns one SQLite connection, keeps  *)
(* it inside an open transaction and commits only on Msg::Flush.           *)
(*                                                                         *)
(* The store is modelled by what SQLite does for the statements the file   *)
(* issues: `disk` is the committed content of the database file (what a    *)
(* new connection sees), `dbh` is the live connection (the rows it sees,   *)
(* committed or not, and whether a transaction is open).  The mailbox      *)
(* (process::Process) and the chunk index are not in this file; they are   *)
(* modelled from the specification.                                        *)
(***************************************************************************)
EXTENDS Integers, Sequences, FiniteSets, TLC

VARIABLES
    disk,        \* committed rows of snapshot_index in the database file
    dbh,         \* SnapshotIndex.dbh: [rows, txn] of the live connection
    actor,       \* "running" | "down": the actor thread owning dbh
    mailbox,     \* FIFO of [from, msg] requests not yet handled
    last,        \* outcome of the most recently handled request
    addsDone,    \* history: Adds answered AddOK since the last FlushOK/restart
    addsFlushed, \* history: Adds answered AddOK before some FlushOK
    restarted,   \* history: the store has been reopened after a termination
    chunkRows,   \* chunk index: hashes visible on its live connection
    chunkDisk,   \* chunk index: hashes committed
    pc           \* backup driver's position in the flush protocol

vars == <<disk, dbh, actor, mailbox, last, addsDone, addsFlushed, restarted,
          chunkRows, chunkDisk, pc>>

(***************************************************************************)
(* Bounds and input sets.                                                  *)
(***************************************************************************)
\* Cap on the rows of the table plus the Adds waiting in the mailbox.
MaxRows == 2

Callers == {"c1", "c2"}

\* Msg::Add / Msg::Latest family strings (String), the empty string included.
Families == {"A", ""}

\* hash_index::Hash.bytes: digests, in both byte orders.
Hashes == {<<170>>, <<187>>}

\* tree_ref (Vec<u8>): any byte vector is well-typed, the empty one included.
TreeRefs == {<<>>, <<1>>, <<2>>}

\* The (hash, tree_ref) pairs the callers add: equal hashes with different
\* tree_refs, different hashes with equal tree_refs, and the empty tree_ref.
Snapshots ==
    {<<h, t>> \in Hashes \X TreeRefs :
        \/ h = <<170>>
        \/ t = <<1>>}

\* Outcome of the store calls of one handler: all succeed, or the first
\* store call of the handler returns an error code.
IO == {"ok", "err"}

(***************************************************************************)
(* Values.                                                                 *)
(***************************************************************************)
None == [some |-> FALSE]

Some(v) == [some |-> TRUE, val |-> v]

AddMsg(f, h, t) == [op |-> "Add", family |-> f, hash |-> h, tree_ref |-> t]

LatestMsg(f) == [op |-> "Latest", family |-> f]

FlushMsg == [op |-> "Flush"]

Msgs ==
    {AddMsg(f, s[1], s[2]) : f \in Families, s \in Snapshots}
        \cup {LatestMsg(f) : f \in Families} \cup {FlushMsg}

AddOK == [kind |-> "AddOK"]

LatestReply(res) == [kind |-> "Latest", res |-> res]

FlushOK == [kind |-> "FlushOK"]

\* The handler panicked: the reply closure was never called.
Died == [kind |-> "Died"]

NoRequest == [from |-> "none"]

Closed == [rows |-> <<>>, txn |-> FALSE]

\* String::as_bytes on the family strings of the model (UTF-8).
as_bytes(s) ==
    CASE s = "" -> <<>>
      [] s = "A" -> <<65>>

(***************************************************************************)
(* The store: what SQLite does for the statements of the file.  A store    *)
(* state is [disk, rows, txn].                                             *)
(***************************************************************************)
Ok(st) == [panic |-> FALSE, st |-> st]

Panic(st) == [panic |-> TRUE, st |-> st]

\* Database::exec of one statement: [ok, st].
exec1(st, stmt) ==
    CASE stmt = "CREATE TABLE IF NOT EXISTS" -> [ok |-> TRUE, st |-> st]
      [] stmt = "BEGIN" ->
            IF st.txn THEN [ok |-> FALSE, st |-> st]
            ELSE [ok |-> TRUE, st |-> [st EXCEPT !.txn = TRUE]]
      [] stmt = "COMMIT" ->
            IF ~st.txn THEN [ok |-> FALSE, st |-> st]
            ELSE [ok |-> TRUE,
                  st |-> [disk |-> st.rows, rows |-> st.rows, txn |-> FALSE]]

\* Database::exec of a statement list: stops at the first failing statement.
RECURSIVE exec(_, _)
exec(st, sql) ==
    IF sql = <<>> THEN [ok |-> TRUE, st |-> st]
    ELSE LET r == exec1(st, Head(sql))
         IN  IF r.ok THEN exec(r.st, Tail(sql)) ELSE r

\* Variant of exec_or_die that ignores the result of exec.
exec_or_ignore(st, sql, io) ==
    IF io = "err" THEN Ok(st) ELSE Ok(exec(st, sql).st)

exec_or_die(st, sql, io) ==
    IF io = "err" THEN Panic(st)
    ELSE LET r == exec(st, sql)
         IN  IF r.ok THEN Ok(r.st) ELSE Panic(r.st)

\* open(&path): a new connection sees the committed rows, in autocommit mode.
open(d) == [disk |-> d, rows |-> d, txn |-> FALSE]

\* Variant of new that never issues BEGIN: the connection stays in autocommit.
new_autocommit(d) ==
    exec_or_die(open(d), <<"CREATE TABLE IF NOT EXISTS">>, "ok")

\* Variant of new that creates the table afresh on every start.
new_recreate(d) ==
    LET c == exec_or_die(open(<<>>), <<"CREATE TABLE IF NOT EXISTS">>, "ok")
    IN  IF c.panic THEN c ELSE exec_or_die(c.st, <<"BEGIN">>, "ok")

new(d) ==
    LET c == exec_or_die(open(d), <<"CREATE TABLE IF NOT EXISTS">>, "ok")
    IN  IF c.panic THEN c ELSE exec_or_die(c.st, <<"BEGIN">>, "ok")

RECURSIVE MaxId(_)
MaxId(rows) ==
    IF rows = <<>> THEN 0
    ELSE LET m == MaxId(Tail(rows))
         IN  IF Head(rows).id > m THEN Head(rows).id ELSE m

\* Variant of add_snapshot that takes the id from the committed rows only.
add_snapshot_stale_id(st, family, hash, tree_ref, io) ==
    IF io = "err" THEN Panic(st)
    ELSE LET row == [id |-> MaxId(st.disk) + 1, family |-> as_bytes(family),
                     hash |-> hash, tree_ref |-> tree_ref]
             rows == Append(st.rows, row)
         IN  Ok([disk |-> IF st.txn THEN st.disk ELSE rows,
                 rows |-> rows, txn |-> st.txn])

\* Variant of add_snapshot that commits its insert at once.
add_snapshot_autocommit(st, family, hash, tree_ref, io) ==
    IF io = "err" THEN Panic(st)
    ELSE LET row == [id |-> MaxId(st.rows) + 1, family |-> as_bytes(family),
                     hash |-> hash, tree_ref |-> tree_ref]
             rows == Append(st.rows, row)
         IN  Ok([disk |-> rows, rows |-> rows, txn |-> st.txn])

\* INSERT INTO snapshot_index (family, hash, tree_ref): id INTEGER PRIMARY KEY
\* takes the largest id of the table plus one; outside a transaction the
\* statement commits by itself.
add_snapshot(st, family, hash, tree_ref, io) ==
    IF io = "err" THEN Panic(st)
    ELSE LET row == [id |-> MaxId(st.rows) + 1, family |-> as_bytes(family),
                     hash |-> hash, tree_ref |-> tree_ref]
             rows == Append(st.rows, row)
         IN  Ok([disk |-> IF st.txn THEN st.disk ELSE rows,
                 rows |-> rows, txn |-> st.txn])

\* Cursor::get_blob: sqlite3_column_blob is NULL for a zero-length blob, and
\* get_blob then gives None.
get_blob(b) == IF b = <<>> THEN None ELSE Some(b)

\* Variant of latest_snapshot without the WHERE clause: the newest row of
\* any family.
latest_snapshot_any_family(st, family, io) ==
    IF io = "err" \/ st.rows = <<>> THEN [panic |-> io = "err", res |-> None]
    ELSE LET top == st.rows[Len(st.rows)]
         IN  [panic |-> FALSE, res |-> Some(<<top.hash, top.tree_ref>>)]

\* Variant of latest_snapshot with ORDER BY id ASC: the oldest row of the
\* family.
latest_snapshot_oldest(st, family, io) ==
    IF io = "err" THEN [panic |-> TRUE, res |-> None]
    ELSE LET found == SelectSeq(st.rows, LAMBDA r : r.family = as_bytes(family))
         IN  IF found = <<>> THEN [panic |-> FALSE, res |-> None]
             ELSE [panic |-> FALSE,
                   res |-> Some(<<found[1].hash, found[1].tree_ref>>)]

\* SELECT hash, tree_ref ... WHERE family=? ORDER BY id DESC, first row.
\* [panic, res]
latest_snapshot(st, family, io) ==
    IF io = "err" THEN [panic |-> TRUE, res |-> None]
    ELSE LET found == SelectSeq(st.rows, LAMBDA r : r.family = as_bytes(family))
         IN  IF found = <<>> THEN [panic |-> FALSE, res |-> None]
             ELSE LET top == CHOOSE r \in {found[i] : i \in DOMAIN found} :
                                 \A i \in DOMAIN found : found[i].id <= r.id
                      h == get_blob(top.hash)
                      t == get_blob(top.tree_ref)
                  IN  IF h.some /\ t.some
                      THEN [panic |-> FALSE, res |-> Some(<<h.val, t.val>>)]
                      ELSE [panic |-> TRUE, res |-> None]

\* Variant of flush that returns without committing.
flush_no_commit(st, io) == exec_or_die(st, <<>>, io)

\* Variant of flush that commits and does not begin the next transaction.
flush_commit_only(st, io) == exec_or_die(st, <<"COMMIT">>, io)

\* Variant of flush that ends the transaction by discarding it.
flush_rollback(st, io) ==
    exec_or_die([st EXCEPT !.rows = st.disk], <<"COMMIT", "BEGIN">>, io)

\* Variant of flush that commits only the newest pending row.
flush_newest_only(st, io) ==
    IF io = "err" \/ ~st.txn THEN Panic(st)
    ELSE Ok([disk |-> IF Len(st.rows) > Len(st.disk)
                      THEN Append(st.disk, st.rows[Len(st.rows)])
                      ELSE st.disk,
             rows |-> st.rows, txn |-> TRUE])

flush(st, io) == exec_or_die(st, <<"COMMIT", "BEGIN">>, io)

\* MsgHandler::handle: [panic, st, reply]
handle(st, msg, io) ==
    CASE msg.op = "Add" ->
            LET r == add_snapshot(st, msg.family, msg.hash, msg.tree_ref, io)
            IN  [panic |-> r.panic, st |-> r.st,
                 reply |-> IF r.panic THEN Died ELSE AddOK]
      [] msg.op = "Latest" ->
            LET r == latest_snapshot(st, msg.family, io)
            IN  [panic |-> r.panic, st |-> st,
                 reply |-> IF r.panic THEN Died ELSE LatestReply(r.res)]
      [] msg.op = "Flush" ->
            LET r == flush(st, io)
            IN  [panic |-> r.panic, st |-> r.st,
                 reply |-> IF r.panic THEN Died ELSE FlushOK]

(***************************************************************************)
(* State machine.                                                          *)
(***************************************************************************)
Store == [disk |-> disk, rows |-> dbh.rows, txn |-> dbh.txn]

Conn(st) == [rows |-> st.rows, txn |-> st.txn]

Init ==
    /\ disk = <<>>
    /\ dbh = Conn(new(<<>>).st)
    /\ actor = "running"
    /\ mailbox = <<>>
    /\ last = NoRequest
    /\ addsDone = <<>>
    /\ addsFlushed = <<>>
    /\ restarted = FALSE
    /\ chunkRows = {}
    /\ chunkDisk = {}
    /\ pc = "build"

Waiting(c) == \E i \in DOMAIN mailbox : mailbox[i].from = c

QueuedAdds == Len(SelectSeq(mailbox, LAMBDA e : e.msg.op = "Add"))

Room == Len(dbh.rows) + QueuedAdds < MaxRows

\* process::Process::send_reply, sending half: the request joins the mailbox
\* and the caller blocks until its reply.
Enqueue(c, m) == mailbox' = Append(mailbox, [from |-> c, msg |-> m])

Send(c, m) ==
    /\ actor = "running"
    /\ ~Waiting(c)
    /\ m.op = "Add" => Room
    /\ Enqueue(c, m)
    /\ UNCHANGED <<disk, dbh, actor, last, addsDone, addsFlushed, restarted,
                   chunkRows, chunkDisk, pc>>

Triple(m) == <<m.family, m.hash, m.tree_ref>>

\* The actor thread takes the oldest request and runs handle to completion.
\* A panic unwinds the thread: the connection is dropped (its transaction
\* rolled back) and the mailbox goes with it.
Handle ==
    /\ actor = "running"
    /\ mailbox # <<>>
    /\ \E io \in IO :
          LET e == Head(mailbox)
              r == handle(Store, e.msg, io)
          IN  /\ last' = [from |-> e.from, msg |-> e.msg, io |-> io,
                          reply |-> r.reply]
              /\ disk' = r.st.disk
              /\ IF r.panic
                 THEN /\ actor' = "down"
                      /\ dbh' = Closed
                      /\ mailbox' = <<>>
                      /\ UNCHANGED <<addsDone, addsFlushed>>
                 ELSE /\ actor' = "running"
                      /\ dbh' = Conn(r.st)
                      /\ mailbox' = Tail(mailbox)
                      /\ addsDone' =
                            CASE e.msg.op = "Add" -> Append(addsDone, Triple(e.msg))
                              [] e.msg.op = "Flush" -> <<>>
                              [] OTHER -> addsDone
                      /\ addsFlushed' =
                            IF e.msg.op = "Flush" THEN addsFlushed \o addsDone
                            ELSE addsFlushed
    /\ UNCHANGED <<restarted, chunkRows, chunkDisk, pc>>

\* Abrupt termination of the whole process: every connection is lost with
\* its open transaction.
Crash ==
    /\ actor = "running"
    /\ actor' = "down"
    /\ dbh' = Closed
    /\ mailbox' = <<>>
    /\ chunkRows' = chunkDisk
    /\ UNCHANGED <<disk, last, addsDone, addsFlushed, restarted, chunkDisk, pc>>

\* SnapshotIndex::new on the same path, in a new process.
Restart ==
    /\ actor = "down"
    /\ LET r == new(disk)
       IN  /\ actor' = IF r.panic THEN "down" ELSE "running"
           /\ dbh' = IF r.panic THEN Closed ELSE Conn(r.st)
           /\ disk' = r.st.disk
    /\ mailbox' = <<>>
    /\ last' = NoRequest
    /\ addsDone' = <<>>
    /\ restarted' = TRUE
    /\ chunkRows' = chunkDisk
    /\ pc' = "build"
    /\ UNCHANGED <<addsFlushed, chunkDisk>>

Next ==
    \/ \E c \in Callers, m \in Msgs : Send(c, m)
    \/ Handle
    \/ Crash
    \/ Restart

Spec == Init /\ [][Next]_vars

(***************************************************************************)
(* The backup driver of the cross-index protocol: chunk index inserts,     *)
(* then Add to the snapshot index, then Flush of the chunk index, and only *)
(* after its FlushOK the Flush of the snapshot index.  The driver is one   *)
(* blocking caller of the snapshot actor; the chunk index is a second      *)
(* store with the same commit-on-Flush discipline.                         *)
(***************************************************************************)
Driver == "driver"

DriverReady == actor = "running" /\ ~Waiting(Driver)

DriverInsert(h) ==
    /\ pc = "build"
    /\ DriverReady
    /\ h \notin chunkRows
    /\ chunkRows' = chunkRows \cup {h}
    /\ UNCHANGED <<disk, dbh, actor, mailbox, last, addsDone, addsFlushed,
                   restarted, chunkDisk, pc>>

DriverAdd(f, s) ==
    /\ pc = "build"
    /\ DriverReady
    /\ s[1] \in chunkRows
    /\ Room
    /\ Enqueue(Driver, AddMsg(f, s[1], s[2]))
    /\ UNCHANGED <<disk, dbh, actor, last, addsDone, addsFlushed, restarted,
                   chunkRows, chunkDisk, pc>>

DriverLatest(f) ==
    /\ pc = "build"
    /\ DriverReady
    /\ Enqueue(Driver, LatestMsg(f))
    /\ UNCHANGED <<disk, dbh, actor, last, addsDone, addsFlushed, restarted,
                   chunkRows, chunkDisk, pc>>

\* Flush to the chunk index and the wait for its FlushOK.
DriverFlushChunks ==
    /\ pc = "build"
    /\ DriverReady
    /\ chunkDisk' = chunkRows
    /\ pc' = "chunks_flushed"
    /\ UNCHANGED <<disk, dbh, actor, mailbox, last, addsDone, addsFlushed,
                   restarted, chunkRows>>

DriverFlushSnapshots ==
    /\ pc = "chunks_flushed"
    /\ DriverReady
    /\ Enqueue(Driver, FlushMsg)
    /\ pc' = "build"
    /\ UNCHANGED <<disk, dbh, actor, last, addsDone, addsFlushed, restarted,
                   chunkRows, chunkDisk>>

NextDriver ==
    \/ \E h \in Hashes : DriverInsert(h)
    \/ \E f \in Families, s \in Snapshots : DriverAdd(f, s)
    \/ \E f \in Families : DriverLatest(f)
    \/ DriverFlushChunks
    \/ DriverFlushSnapshots
    \/ Handle
    \/ Crash
    \/ Restart

SpecDriver == Init /\ [][NextDriver]_vars

(***************************************************************************)
(* What the claims read.  The client-side history (addsDone, addsFlushed)  *)
(* is what the callers were told: an Add counts once AddOK was produced,   *)
(* and counts as flushed once a later FlushOK was produced.                *)
(***************************************************************************)
Content(rows) ==
    [i \in DOMAIN rows |-> <<rows[i].family, rows[i].hash, rows[i].tree_ref>>]

Expect(adds) ==
    [i \in DOMAIN adds |-> <<as_bytes(adds[i][1]), adds[i][2], adds[i][3]>>]

History == addsFlushed \o addsDone

IsPrefix(a, b) == Len(a) <= Len(b) /\ SubSeq(b, 1, Len(a)) = a

\* The (hash, tree_ref) of the last Add for family f in a history.
LastFor(adds, f) ==
    LET idx == {i \in DOMAIN adds : adds[i][1] = f}
    IN  IF idx = {} THEN None
        ELSE LET k == CHOOSE i \in idx : \A j \in idx : j <= i
             IN  Some(<<adds[k][2], adds[k][3]>>)

\* The most recently handled request was m and no store call of it failed.
Handled(m) == last # NoRequest /\ last.msg = m /\ last.io = "ok"

Replied(r) == last # NoRequest /\ last.reply = r

\* This step is the actor handling the oldest request of the mailbox.
HandleStep ==
    /\ actor = "running"
    /\ mailbox # <<>>
    /\ last' # NoRequest
    /\ \/ actor' = "running" /\ mailbox' = Tail(mailbox)
       \/ actor' = "down" /\ last'.reply = Died

\* This step handled m and produced its reply.
Done(m) ==
    /\ HandleStep
    /\ Head(mailbox).msg = m
    /\ actor' = "running"
    /\ last'.io = "ok"

(***************************************************************************)
(* Claims.                                                                 *)
(***************************************************************************)

\* C1 (durability boundary): after a crash and a restart the table holds
\* exactly the records whose Add was processed before the last completed
\* Flush, and Latest(F) then returns the last such record for F, or None.
C1_DurabilityBoundary ==
    /\ (restarted /\ actor = "running" /\ addsDone = <<>>)
          => Content(dbh.rows) = Expect(addsFlushed)
    /\ \A f \in Families :
          (restarted /\ addsDone = <<>> /\ Handled(LatestMsg(f)))
              => last.reply = LatestReply(LastFor(addsFlushed, f))

\* C2 (commit before reply): when FlushOK has been produced every Add
\* answered before it is committed, and it stays committed in every later
\* state, a crash and a restart included.
C2_CommitBeforeReply ==
    /\ Replied(FlushOK) => Content(disk) = Expect(addsFlushed)
    /\ IsPrefix(Expect(addsFlushed), Content(disk))
    /\ actor = "running" => IsPrefix(Expect(addsFlushed), Content(dbh.rows))

C2_Witness ==
    /\ Replied(FlushOK)
    /\ actor = "down"
    /\ Len(addsFlushed) = 2
    /\ Content(disk) = Expect(addsFlushed)

\* C3 (cross-index crash consistency): under the driver's protocol every
\* committed snapshot record references a hash committed in the chunk index,
\* in every state, after a crash included.
C3_CrossIndexConsistency ==
    \A i \in DOMAIN disk : disk[i].hash \in chunkDisk

C3_Witness ==
    /\ restarted
    /\ actor = "running"
    /\ Len(disk) = 2
    /\ chunkRows # chunkDisk

\* C4 (round trip): after Add(F, H, T) and a Flush, with no later Add for F,
\* Latest(F) returns Some((H, T)).
C4_RoundTrip ==
    \A f \in Families :
        (/\ Handled(LatestMsg(f))
         /\ LastFor(addsFlushed, f) # None
         /\ LastFor(addsDone, f) = None)
            => last.reply = LatestReply(LastFor(addsFlushed, f))

\* C5 (latest wins): Latest(F) returns the (hash, tree_ref) of the most
\* recently processed Add for F among the records present, flushed or not.
C5_LatestWins ==
    \A f \in Families :
        Handled(LatestMsg(f)) => last.reply = LatestReply(LastFor(History, f))

\* C6 (family isolation): handling Add(A, H, T) leaves the outcome of
\* Latest(B) unchanged for every B other than A, and Latest on a family
\* without records is answered with the reply Latest(None), not by the
\* termination of the actor.
C6_FamilyIsolation ==
    /\ [][\A m \in Msgs :
            (m.op = "Add" /\ Done(m)) =>
                \A b \in Families \ {m.family} :
                    latest_snapshot(Store', b, "ok")
                        = latest_snapshot(Store, b, "ok")]_vars
    /\ [](\A f \in Families :
            (Handled(LatestMsg(f)) /\ LastFor(History, f) = None)
                => last.reply = LatestReply(None))

C6_Witness ==
    /\ last # NoRequest
    /\ last.msg.op = "Add"
    /\ last.reply = AddOK
    /\ last.msg.family = "A"
    /\ latest_snapshot(Store, "", "ok") = [panic |-> FALSE, res |-> Some(<<<<170>>, <<1>>>>)]
    /\ Len(dbh.rows) = 2

\* C7 (read your own write): right after Add(F, H, T) was processed and
\* before any Flush, Latest(F) returns Some((H, T)), and the record is not
\* committed.
C7_ReadYourOwnWrite ==
    \A f \in Families :
        (/\ Handled(LatestMsg(f))
         /\ addsDone # <<>>
         /\ addsDone[Len(addsDone)][1] = f)
            => /\ last.reply = LatestReply(LastFor(addsDone, f))
               /\ Content(disk) = Expect(addsFlushed)

\* C8 (flush idempotence of visibility): a completed Flush leaves the
\* outcome of Latest(F) unchanged for every F, and a Flush with nothing
\* pending leaves the committed rows unchanged.
C8_FlushKeepsLatest ==
    [][Done(FlushMsg) =>
          /\ \A f \in Families :
                latest_snapshot(Store', f, "ok") = latest_snapshot(Store, f, "ok")
          /\ dbh.rows = disk => disk' = disk]_vars

C8_Witness ==
    /\ Replied(FlushOK)
    /\ actor = "running"
    /\ Len(disk) = 2
    /\ latest_snapshot(Store, "A", "ok") = [panic |-> FALSE, res |-> Some(<<<<170>>, <<2>>>>)]

\* The reply of a sequential execution of the requests in mailbox order.
SeqReply(m) ==
    CASE m.op = "Add" -> AddOK
      [] m.op = "Flush" -> FlushOK
      [] m.op = "Latest" -> LatestReply(LastFor(History, m.family))

\* C9 (serialized FIFO processing): the actor answers the oldest request of
\* the mailbox, one request per step, and every reply it produces is the
\* reply of the sequential execution of the requests in mailbox order.
C9_SerializedFifo ==
    /\ [][HandleStep =>
            /\ last'.from = Head(mailbox).from
            /\ last'.msg = Head(mailbox).msg
            /\ actor' = "running" => mailbox' = Tail(mailbox)]_vars
    /\ [](last # NoRequest /\ last.reply # Died => last.reply = SeqReply(last.msg))

C9_Witness ==
    /\ last # NoRequest
    /\ last.from = "c2"
    /\ last.msg = LatestMsg("A")
    /\ last.reply = LatestReply(Some(<<<<187>>, <<1>>>>))
    /\ Len(addsDone) = 2
    /\ mailbox # <<>>
    /\ Head(mailbox).from = "c1"

\* C10 (always-open transaction): whenever the actor is between requests,
\* after construction and after any handled request, its connection is
\* inside an open transaction.
C10_AlwaysOpenTransaction ==
    actor = "running" => dbh.txn

C10_Witness ==
    /\ Replied(FlushOK)
    /\ actor = "running"
    /\ dbh.txn
    /\ Len(disk) = 1
    /\ restarted

\* C11 (only Flush commits): the committed rows change only in the step
\* that handles a Flush; handling an Add or a Latest leaves them as they are.
C11_OnlyFlushCommits ==
    [][disk' # disk => HandleStep /\ Head(mailbox).msg = FlushMsg]_vars

C11_Witness ==
    /\ Replied(AddOK)
    /\ actor = "running"
    /\ Len(disk) = 1
    /\ Len(dbh.rows) = 2

\* C12 (append-only history): every step keeps the committed rows, with
\* their ids, families, hashes and tree_refs, as a prefix of the committed
\* rows after it, and the constructor run on an existing store starts from
\* exactly the committed rows.
C12_AppendOnly ==
    /\ [][IsPrefix(disk, disk')]_vars
    /\ [][actor = "down" /\ actor' = "running"
            => disk' = disk /\ dbh'.rows = disk]_vars

C12_Witness ==
    /\ restarted
    /\ actor = "running"
    /\ Replied(FlushOK)
    /\ Len(disk) = 2
    /\ disk[1].tree_ref # disk[2].tree_ref

\* C13 (strictly increasing ids): in every state the rows of the table, in
\* insertion order, have strictly increasing ids, and a handled Add gives
\* its row an id greater than the id of every row present before it, also
\* after a crash that rolled back Adds and a restart.
C13_StrictlyIncreasingIds ==
    /\ [](\A i, j \in DOMAIN dbh.rows :
            i < j => dbh.rows[i].id < dbh.rows[j].id)
    /\ [][\A m \in Msgs :
            (m.op = "Add" /\ Done(m)) =>
                \A i \in DOMAIN dbh.rows :
                    dbh.rows[i].id < dbh'.rows[Len(dbh'.rows)].id]_vars

C13_Witness ==
    /\ restarted
    /\ Replied(AddOK)
    /\ Len(disk) = 1
    /\ Len(dbh.rows) = 2
    /\ dbh.rows[2].id = 2
    /\ dbh.rows[1].family = dbh.rows[2].family

\* C14 (fatal store errors): when the store call of an Add or of a Flush
\* fails, no AddOK or FlushOK is produced, the actor is terminated and its
\* mailbox is gone, so it handles nothing more.
C14_FatalStoreErrors ==
    (/\ last # NoRequest
     /\ last.io = "err"
     /\ last.msg.op \in {"Add", "Flush"})
        => /\ last.reply = Died
           /\ actor = "down"
           /\ dbh = Closed
           /\ mailbox = <<>>

C14_Witness ==
    /\ last # NoRequest
    /\ last.io = "err"
    /\ last.msg = FlushMsg
    /\ last.reply = Died
    /\ Len(addsDone) = 2
    /\ disk = <<>>

\* C15 (opaque inputs are accepted): every Add whose store calls succeed is
\* answered AddOK, whatever its family, hash and tree_ref, the empty ones
\* included, and a later Latest for that family is answered with the stored
\* bytes, not by the termination of the actor.
C15_OpaqueInputsAccepted ==
    /\ \A m \in Msgs : (m.op = "Add" /\ Handled(m)) => last.reply = AddOK
    /\ \A f \in Families :
          (Handled(LatestMsg(f)) /\ LastFor(History, f) # None)
              => /\ last.reply # Died
                 /\ last.reply.res = LastFor(History, f)

\* The reply variant that answers a request variant.
ReplyKind(op) ==
    CASE op = "Add" -> "AddOK"
      [] op = "Latest" -> "Latest"
      [] op = "Flush" -> "FlushOK"

\* C16 (request/reply matching): a handled request whose store calls all
\* succeeded has produced the reply of its own kind: AddOK for Add,
\* Latest(..) for Latest, FlushOK for Flush.
C16_ReplyMatchesRequest ==
    (last # NoRequest /\ last.io = "ok")
        => last.reply.kind = ReplyKind(last.msg.op)

\* C17 (Latest is read-only): the step that handles Latest(F), with no
\* store call failing, leaves the rows of the connection, their ids, the
\* open transaction and the committed rows unchanged.
C17_LatestReadOnly ==
    [][\A f \in Families :
          (HandleStep /\ Head(mailbox).msg = LatestMsg(f) /\ last'.io = "ok")
              => dbh' = dbh /\ disk' = disk]_vars

\* C18 (durable prefix): in every state the committed rows are a prefix of
\* the Adds processed, in processing order, and of the rows the live
\* connection sees: a crash loses only a suffix of the Adds.
C18_DurablePrefix ==
    /\ IsPrefix(Content(disk), Expect(History))
    /\ actor = "running" => IsPrefix(disk, dbh.rows)

C18_Witness ==
    /\ actor = "down"
    /\ Replied(AddOK)
    /\ Len(addsFlushed) = 1
    /\ Len(addsDone) = 1
    /\ Content(disk) = Expect(addsFlushed)

====
